---- MODULE Spec2Model ----
(***************************************************************************)
(* Model of voltage_ctrl.VoltageController                                 *)
(* (src/src/voltage_ctrl/voltage_controller.py).                           *)
(*                                                                         *)
(* The controller is a sequential program: one method runs at a time and   *)
(* every method talks to a serial transport.  Each transport operation     *)
(* (opening the port, a write) either succeeds or raises, so a method is   *)
(* modelled as a sequence of steps, one per transport operation, with the  *)
(* position held in pc.  The except/finally handlers run in the same step  *)
(* as the operation that raised.                                           *)
(*                                                                         *)
(* Voltages and resistances are whole volts and ohms.  The conversions are *)
(* computed in exact integer arithmetic; on the input grid used here the   *)
(* results coincide with the IEEE double computation of the source.        *)
(***************************************************************************)
EXTENDS Integers, Sequences, FiniteSets, TLC

\* ---------------------------------------------------------------- bounds
MaxLen == 2

\* ---------------------------------------------------------------- inputs
ChannelIds == {8, 9}
VoltValues == {3, 10, 30}
VMaxValues == {10, 30}
ResistanceValues == {50, 1000}

RECURSIVE SeqsUpTo(_, _)
SeqsUpTo(S, n) ==
    IF n = 0 THEN {<<>>}
    ELSE LET shorter == SeqsUpTo(S, n - 1)
         IN  shorter \cup {Append(s, x) : s \in {t \in shorter : Len(t) = n - 1}, x \in S}

ChannelLists == SeqsUpTo(ChannelIds, MaxLen)
VoltageLists == SeqsUpTo(VoltValues, MaxLen)

\* ------------------------------------------------------ class constants
DAC_RESOLUTION == 4096
VOLTAGE_FULL_SCALE == 30
CURRENT_SCALE_FACTOR == 200
\* 1.1 as the fraction 11/10
CURRENT_SAFETY_FACTOR == <<11, 10>>

\* ------------------------------------------------------------- helpers
Min(a, b) == IF a <= b THEN a ELSE b

Range(s) == {s[k] : k \in 1..Len(s)}

NoDuplicates(s) == \A a, b \in 1..Len(s) : s[a] = s[b] => a = b

\* One transport event.  kind "cmd" is the write of a framed command
\* "s{channel} {mode} {value} e"; "hello" is the write of b"hello world".
Cmd(ch, m, v) == [kind |-> "cmd", channel |-> ch, mode |-> m, value |-> v]
Ev(k) == [kind |-> k, channel |-> 0, mode |-> 0, value |-> 0]

IsCmd(e) == e.kind = "cmd"
Cmds(w) == SelectSeq(w, IsCmd)
IsVoltageCmd(e) == e.kind = "cmd" /\ e.mode = 0
IsCurrentCmd(e) == e.kind = "cmd" /\ e.mode = 1

\* ---------------------------------------------------------- conversions
\* floor(voltage / 30.0 * 4096)
_voltage_to_dac(voltage) == (voltage * DAC_RESOLUTION) \div VOLTAGE_FULL_SCALE

\* voltage / resistance * 1.1 * 1000, as the fraction <<numerator, denominator>>
CurrentLimitMa(voltage, r) ==
    <<voltage * CURRENT_SAFETY_FACTOR[1] * 1000, r * CURRENT_SAFETY_FACTOR[2]>>

\* floor(current_limit_ma / 200.0 * 4096)
_current_limit_to_dac(ma) ==
    (ma[1] * DAC_RESOLUTION) \div (ma[2] * CURRENT_SCALE_FACTOR)

\* _update_active_channels: append each channel not yet in the list
UpdateActive_NoMembershipTest(active, chs) == active \o chs

RECURSIVE _update_active_channels(_, _)
_update_active_channels(active, chs) ==
    IF chs = <<>> THEN active
    ELSE _update_active_channels(
             IF Head(chs) \in Range(active) THEN active ELSE Append(active, Head(chs)),
             Tail(chs))

\* the length validation at the head of set_voltages / set_voltages_safe
LengthsAccepted_NoCheck(chs, vs) == TRUE

LengthsAccepted(chs, vs) == Len(chs) = Len(vs)

\* set_voltages: clamped_voltage = min(voltage, v_max); _voltage_to_dac(clamped)
UnsafeVoltageDac(voltage, vm) == _voltage_to_dac(Min(voltage, vm))

UnsafeCommand_AlsoCurrent(ch, voltage, vm) == Cmd(ch, 1, UnsafeVoltageDac(voltage, vm))

UnsafeCommand(ch, voltage, vm) == Cmd(ch, 0, UnsafeVoltageDac(voltage, vm))

\* set_voltages_safe, phase 2: the code of the voltage, replaced by the code
\* of v_max when voltage > v_max
SafeVoltageDac_NoClamp(voltage, vm) == _voltage_to_dac(voltage)

SafeVoltageDac(voltage, vm) ==
    IF voltage > vm THEN _voltage_to_dac(vm) ELSE _voltage_to_dac(voltage)

\* set_voltages_safe, phase 1: the limit for v_max
InitialCurrentCommand_VoltageMode(ch, vm, r) ==
    Cmd(ch, 0, _current_limit_to_dac(CurrentLimitMa(vm, r)))

InitialCurrentCommand(ch, vm, r) ==
    Cmd(ch, 1, _current_limit_to_dac(CurrentLimitMa(vm, r)))

\* set_voltages_safe, phase 3: the limit for min(voltage, v_max)
FinalCurrentDac_Unclamped(voltage, vm, r) ==
    _current_limit_to_dac(CurrentLimitMa(voltage, r))

FinalCurrentDac(voltage, vm, r) ==
    _current_limit_to_dac(CurrentLimitMa(Min(voltage, vm), r))

\* _zero_channels: the two commands of one loop iteration
ZeroVoltageCommand(ch) == Cmd(ch, 0, 0)
ZeroCurrentCommand_VoltageMode(ch) == Cmd(ch, 0, 0)

ZeroCurrentCommand(ch) == Cmd(ch, 1, 0)

\* _close_serial: close the connection when there is one and it is open
_close_serial_conn(conn) == IF conn = "open" THEN "closed" ELSE conn
_close_serial_wire(conn, w) == IF conn = "open" THEN Append(w, Ev("close")) ELSE w

\* the except clause of set_voltages / set_voltages_safe: _close_serial(); raise
ExceptClose_Leak(conn) == conn

ExceptClose(conn) == _close_serial_conn(conn)

\* what __exit__ hands back to the with statement
ExitResult_Reraise(zeroingRaised) ==
    IF zeroingRaised THEN "SerialException" ELSE "False"

ExitResult(zeroingRaised) == "False"

\* ------------------------------------------------------------------ state
VARIABLES
    zero_on_exit,      \* self.zero_on_exit
    context_active,    \* self._context_active
    active_channels,   \* self._active_channels
    serial_conn,       \* self.serial_conn: "None", "open" or "closed"
    pc,                \* position of the running method; "done" when it has
                       \* returned or raised, "idle" when the caller has control
    op,                \* the method running, or the last one that ran
    channels,          \* argument channels of that method
    voltages,          \* argument voltages
    resistance,        \* argument resistance (0 when the method has none)
    v_max,             \* argument v_max (0 when the method has none)
    idx,               \* 1-based position of the running for loop
    wire,              \* transport events of that method call, in order
    result,            \* "running", "None"/"False" (returned) or the exception raised
    caught             \* the exception __exit__ caught while zeroing, or "none"

vars == <<zero_on_exit, context_active, active_channels, serial_conn, pc, op,
          channels, voltages, resistance, v_max, idx, wire, result, caught>>

Init ==
    /\ zero_on_exit \in BOOLEAN
    /\ context_active = FALSE
    /\ active_channels = <<>>
    /\ serial_conn = "None"
    /\ pc = "idle"
    /\ op = "none"
    /\ channels = <<>>
    /\ voltages = <<>>
    /\ resistance = 0
    /\ v_max = 0
    /\ idx = 1
    /\ wire = <<>>
    /\ result = "None"
    /\ caught = "none"

\* zip(channels, voltages) stops at the shorter list
ZipLen == Min(Len(channels), Len(voltages))

argVars == <<channels, voltages, resistance, v_max>>

\* ------------------------------------------------------ exception paths
\* except clause of set_voltages (241-243) and set_voltages_safe (321-324),
\* entered with the connection in state conn and the events w sent so far
SetRaise(conn, w) ==
    /\ serial_conn' = ExceptClose(conn)
    /\ wire' = IF ExceptClose(conn) = conn THEN w ELSE Append(w, Ev("close"))
    /\ result' = "SerialException"
    /\ pc' = "done"
    /\ UNCHANGED <<context_active, caught>>

\* an exception inside _zero_channels: its finally closes the connection and
\* re-raises, __exit__ catches it, closes again and returns
ZeroRaise(conn, w) ==
    /\ serial_conn' = _close_serial_conn(_close_serial_conn(conn))
    /\ wire' = _close_serial_wire(conn, w)
    /\ caught' = "SerialException"
    /\ context_active' = FALSE
    /\ result' = ExitResult(TRUE)
    /\ pc' = "done"

\* the handler of the method that is running
Raise(conn, w) ==
    IF op = "exit" THEN ZeroRaise(conn, w) ELSE SetRaise(conn, w)

\* ------------------------------------------------------- transport steps
\* _open_serial.  Nothing happens when the connection is open; otherwise
\* serial.Serial(...) may raise, and so may the write of b"hello world".
_open_serial(okPc) ==
    IF serial_conn = "open"
    THEN /\ pc' = okPc
         /\ UNCHANGED <<serial_conn, wire, result, context_active, caught>>
    ELSE \/ /\ serial_conn' = "open"
            /\ wire' = wire \o <<Ev("open"), Ev("hello")>>
            /\ pc' = okPc
            /\ UNCHANGED <<result, context_active, caught>>
         \/ Raise(serial_conn, wire)
         \/ Raise("open", Append(wire, Ev("open")))

\* _send_command: one write of a framed command, which may raise
_send_command(cmd, okPc, okIdx) ==
    \/ /\ wire' = Append(wire, cmd)
       /\ pc' = okPc
       /\ idx' = okIdx
       /\ UNCHANGED <<serial_conn, result, context_active, caught>>
    \/ /\ Raise(serial_conn, wire)
       /\ UNCHANGED idx

\* ------------------------------------------------------------ the caller
\* Control is back in the caller: the frame of the finished method, with its
\* arguments and locals, is gone, and the value returned or the exception
\* raised has been delivered.
Return ==
    /\ pc = "done"
    /\ pc' = "idle"
    /\ op' = "none"
    /\ channels' = <<>>
    /\ voltages' = <<>>
    /\ resistance' = 0
    /\ v_max' = 0
    /\ idx' = 1
    /\ wire' = <<>>
    /\ result' = "None"
    /\ caught' = "none"
    /\ UNCHANGED <<zero_on_exit, context_active, active_channels, serial_conn>>

\* ----------------------------------------------------- context manager
Enter ==
    /\ pc = "idle"
    /\ ~context_active
    /\ context_active' = TRUE
    /\ UNCHANGED <<zero_on_exit, active_channels, serial_conn, pc, op, argVars,
                   idx, wire, result, caught>>

\* __exit__ up to the call of _zero_channels, or all of it when there is
\* nothing to zero
Exit ==
    /\ pc = "idle"
    /\ context_active
    /\ op' = "exit"
    /\ voltages' = <<>>
    /\ resistance' = 0
    /\ v_max' = 0
    /\ idx' = 1
    /\ caught' = "none"
    /\ IF zero_on_exit /\ active_channels # <<>>
       THEN /\ channels' = active_channels
            /\ wire' = <<>>
            /\ result' = "running"
            /\ pc' = "zero_open"
            /\ UNCHANGED <<context_active, serial_conn>>
       ELSE /\ channels' = <<>>
            /\ serial_conn' = _close_serial_conn(serial_conn)
            /\ wire' = _close_serial_wire(serial_conn, <<>>)
            /\ context_active' = FALSE
            /\ result' = ExitResult(FALSE)
            /\ pc' = "done"
    /\ UNCHANGED <<zero_on_exit, active_channels>>

\* ------------------------------------------------------- _zero_channels
ZeroOpen ==
    /\ pc = "zero_open"
    /\ _open_serial("zero_v")
    /\ UNCHANGED <<zero_on_exit, active_channels, op, argVars, idx>>

\* head of the loop: the voltage command of channels[idx], or, after the last
\* channel, the finally of _zero_channels and the finally of __exit__
ZeroVoltage ==
    /\ pc = "zero_v"
    /\ IF idx <= Len(channels)
       THEN _send_command(ZeroVoltageCommand(channels[idx]), "zero_i", idx)
       ELSE /\ serial_conn' = _close_serial_conn(_close_serial_conn(serial_conn))
            /\ wire' = _close_serial_wire(serial_conn, wire)
            /\ context_active' = FALSE
            /\ result' = ExitResult(FALSE)
            /\ pc' = "done"
            /\ UNCHANGED <<idx, caught>>
    /\ UNCHANGED <<zero_on_exit, active_channels, op, argVars>>

ZeroCurrent ==
    /\ pc = "zero_i"
    /\ _send_command(ZeroCurrentCommand(channels[idx]), "zero_v", idx + 1)
    /\ UNCHANGED <<zero_on_exit, active_channels, op, argVars>>

\* --------------------------------------------------------- set_voltages
SetVoltages(chs, vs, vm) ==
    /\ pc = "idle"
    /\ op' = "set_voltages"
    /\ channels' = chs
    /\ voltages' = vs
    /\ resistance' = 0
    /\ v_max' = vm
    /\ idx' = 1
    /\ wire' = <<>>
    /\ caught' = "none"
    /\ IF LengthsAccepted(chs, vs)
       THEN /\ active_channels' = _update_active_channels(active_channels, chs)
            /\ result' = "running"
            /\ pc' = "unsafe_open"
       ELSE /\ result' = "ValueError"
            /\ pc' = "done"
            /\ UNCHANGED active_channels
    /\ UNCHANGED <<zero_on_exit, context_active, serial_conn>>

\* the caller picks the arguments
CallSetVoltages ==
    /\ pc = "idle"
    /\ \E chs \in ChannelLists, vs \in VoltageLists, vm \in VMaxValues :
          SetVoltages(chs, vs, vm)

UnsafeOpen ==
    /\ pc = "unsafe_open"
    /\ _open_serial("unsafe_loop")
    /\ UNCHANGED <<zero_on_exit, active_channels, op, argVars, idx>>

UnsafeLoop ==
    /\ pc = "unsafe_loop"
    /\ IF idx <= ZipLen
       THEN _send_command(UnsafeCommand(channels[idx], voltages[idx], v_max),
                          "unsafe_loop", idx + 1)
       ELSE /\ serial_conn' = _close_serial_conn(serial_conn)
            /\ wire' = _close_serial_wire(serial_conn, wire)
            /\ result' = "None"
            /\ pc' = "done"
            /\ UNCHANGED <<idx, context_active, caught>>
    /\ UNCHANGED <<zero_on_exit, active_channels, op, argVars>>

\* ---------------------------------------------------- set_voltages_safe
SetVoltagesSafe(chs, vs, r, vm) ==
    /\ pc = "idle"
    /\ op' = "set_voltages_safe"
    /\ channels' = chs
    /\ voltages' = vs
    /\ resistance' = r
    /\ v_max' = vm
    /\ idx' = 1
    /\ wire' = <<>>
    /\ caught' = "none"
    /\ IF LengthsAccepted(chs, vs)
       THEN /\ active_channels' = _update_active_channels(active_channels, chs)
            /\ result' = "running"
            /\ pc' = "safe_open1"
       ELSE /\ result' = "ValueError"
            /\ pc' = "done"
            /\ UNCHANGED active_channels
    /\ UNCHANGED <<zero_on_exit, context_active, serial_conn>>

\* the caller picks the arguments
CallSetVoltagesSafe ==
    /\ pc = "idle"
    /\ \E chs \in ChannelLists, vs \in VoltageLists,
          r \in ResistanceValues, vm \in VMaxValues :
          SetVoltagesSafe(chs, vs, r, vm)

SafeOpen1 ==
    /\ pc = "safe_open1"
    /\ _open_serial("safe_phase1")
    /\ UNCHANGED <<zero_on_exit, active_channels, op, argVars, idx>>

\* for channel in channels: initial current limit; then _close_serial()
SafePhase1 ==
    /\ pc = "safe_phase1"
    /\ IF idx <= Len(channels)
       THEN _send_command(InitialCurrentCommand(channels[idx], v_max, resistance),
                          "safe_phase1", idx + 1)
       ELSE /\ serial_conn' = _close_serial_conn(serial_conn)
            /\ wire' = _close_serial_wire(serial_conn, wire)
            /\ pc' = "safe_open2"
            /\ UNCHANGED <<idx, result, context_active, caught>>
    /\ UNCHANGED <<zero_on_exit, active_channels, op, argVars>>

SafeOpen2 ==
    /\ pc = "safe_open2"
    /\ _open_serial("safe_phase2")
    /\ idx' = 1
    /\ UNCHANGED <<zero_on_exit, active_channels, op, argVars>>

\* for channel, voltage in zip(channels, voltages): voltage command
SafePhase2 ==
    /\ pc = "safe_phase2"
    /\ IF idx <= ZipLen
       THEN _send_command(Cmd(channels[idx], 0, SafeVoltageDac(voltages[idx], v_max)),
                          "safe_phase2", idx + 1)
       ELSE /\ pc' = "safe_phase3"
            /\ idx' = 1
            /\ UNCHANGED <<serial_conn, wire, result, context_active, caught>>
    /\ UNCHANGED <<zero_on_exit, active_channels, op, argVars>>

\* for channel, voltage in zip(channels, voltages): final current limit;
\* then _close_serial() and return
SafePhase3 ==
    /\ pc = "safe_phase3"
    /\ IF idx <= ZipLen
       THEN _send_command(Cmd(channels[idx], 1,
                              FinalCurrentDac(voltages[idx], v_max, resistance)),
                          "safe_phase3", idx + 1)
       ELSE /\ serial_conn' = _close_serial_conn(serial_conn)
            /\ wire' = _close_serial_wire(serial_conn, wire)
            /\ result' = "None"
            /\ pc' = "done"
            /\ UNCHANGED <<idx, context_active, caught>>
    /\ UNCHANGED <<zero_on_exit, active_channels, op, argVars>>

\* ------------------------------------------------------- specification
Next ==
    \/ Return
    \/ Enter
    \/ Exit
    \/ ZeroOpen
    \/ ZeroVoltage
    \/ ZeroCurrent
    \/ CallSetVoltages
    \/ UnsafeOpen
    \/ UnsafeLoop
    \/ CallSetVoltagesSafe
    \/ SafeOpen1
    \/ SafePhase1
    \/ SafeOpen2
    \/ SafePhase2
    \/ SafePhase3

Spec == Init /\ [][Next]_vars

TypeOK ==
    /\ zero_on_exit \in BOOLEAN
    /\ context_active \in BOOLEAN
    /\ serial_conn \in {"None", "open", "closed"}
    /\ op \in {"none", "exit", "set_voltages", "set_voltages_safe"}
    /\ result \in {"running", "None", "False", "ValueError", "SerialException"}
    /\ caught \in {"none", "SerialException"}
    /\ (pc \in {"idle", "done"}) = (result # "running")
    /\ pc = "idle" => op = "none" /\ wire = <<>>

\* ------------------------------------------------------------ properties
SetOp == op \in {"set_voltages", "set_voltages_safe"}

VoltageCmds == SelectSeq(wire, IsVoltageCmd)

\* number of commands a set call sends when nothing fails
ExpectedCmds ==
    IF op = "set_voltages_safe" THEN 3 * Len(channels) ELSE Len(channels)

\* C1: in set_voltages and set_voltages_safe the j-th voltage command on the
\* wire is for channels[j] and carries the DAC code of min(voltages[j], v_max);
\* when voltages[j] >= v_max that is the code of v_max, and no voltage code
\* exceeds the code of v_max.
C1_VoltageCodeClamped ==
    SetOp =>
        /\ Len(VoltageCmds) <= ZipLen
        /\ \A j \in 1..Len(VoltageCmds) :
              /\ VoltageCmds[j].channel = channels[j]
              /\ VoltageCmds[j].value = _voltage_to_dac(Min(voltages[j], v_max))
              /\ voltages[j] >= v_max =>
                    VoltageCmds[j].value = _voltage_to_dac(v_max)
              /\ VoltageCmds[j].value <= _voltage_to_dac(v_max)

C1_Witness ==
    /\ op = "set_voltages_safe"
    /\ pc = "done"
    /\ result = "None"
    /\ Len(VoltageCmds) = 2
    /\ voltages[1] > v_max
    /\ voltages[2] < v_max

\* C2: the commands of set_voltages_safe on n channels come in three phases:
\* current limits (mode 1) for channels[1..n], then voltages (mode 0) for
\* channels[1..n], then current limits (mode 1) for channels[1..n]; never more
\* than 3n, and exactly 3n when the call returns normally.
C2_ThreePhases ==
    op = "set_voltages_safe" =>
        LET c == Cmds(wire)
            n == Len(channels)
        IN  /\ Len(c) <= 3 * n
            /\ \A k \in 1..Len(c) :
                  /\ c[k].mode = (IF k <= n THEN 1 ELSE IF k <= 2 * n THEN 0 ELSE 1)
                  /\ c[k].channel = channels[((k - 1) % n) + 1]
            /\ (pc = "done" /\ result = "None") => Len(c) = 3 * n

C2_Witness ==
    /\ op = "set_voltages_safe"
    /\ pc = "done"
    /\ result = "None"
    /\ channels = <<8, 9>>
    /\ Len(Cmds(wire)) = 6

\* C3: a call of set_voltages or set_voltages_safe whose lists differ in
\* length raises ValueError at once: nothing is opened or written, and the
\* active channels and the connection are as before the call.
C3_Step ==
    (pc = "idle" /\ op' \in {"set_voltages", "set_voltages_safe"}
                 /\ Len(channels') # Len(voltages'))
        => /\ result' = "ValueError"
           /\ pc' = "done"
           /\ wire' = <<>>
           /\ serial_conn' = serial_conn
           /\ active_channels' = active_channels

C3_MismatchRejected == [][C3_Step]_vars

C3_Witness ==
    /\ SetOp
    /\ Len(channels) # Len(voltages)
    /\ result = "ValueError"
    /\ pc = "done"
    /\ wire = <<>>
    /\ active_channels = <<9>>
    /\ channels = <<8, 9>>

\* C4: for voltages in [0, v_max], v_max in [0, 30] and a positive resistance,
\* every command on the wire carries a value in [0, 4095].
C4_CodesInRange ==
    ( /\ v_max <= VOLTAGE_FULL_SCALE
      /\ \A j \in 1..Len(voltages) : voltages[j] \in 0..v_max
      /\ op = "set_voltages_safe" => resistance > 0 )
        => \A k \in 1..Len(wire) :
              IsCmd(wire[k]) => wire[k].value \in 0..(DAC_RESOLUTION - 1)

\* C5: the commands of set_voltages are voltage commands (mode 0) only, the
\* k-th one for the k-th (channel, voltage) pair; never more than n, and
\* exactly n when the call returns normally.
C5_UnsafeVoltageOnly ==
    op = "set_voltages" =>
        LET c == Cmds(wire)
        IN  /\ Len(c) <= Len(channels)
            /\ \A k \in 1..Len(c) :
                  /\ c[k].mode = 0
                  /\ c[k].channel = channels[k]
            /\ \A k \in 1..Len(wire) : ~IsCurrentCmd(wire[k])
            /\ (pc = "done" /\ result = "None") => Len(c) = Len(channels)

C5_Witness ==
    /\ op = "set_voltages"
    /\ pc = "done"
    /\ result = "None"
    /\ channels = <<8, 9>>
    /\ Len(Cmds(wire)) = 2

\* C6: the commands of the zeroing done by __exit__ are, channel by channel in
\* list order, a voltage command with code 0 followed by a current-limit
\* command with code 0, and nothing else; all of them when no write fails.
C6_ZeroPairs ==
    op = "exit" =>
        LET c == Cmds(wire)
            n == Len(channels)
        IN  /\ Len(c) <= 2 * n
            /\ \A k \in 1..Len(c) :
                  c[k] = Cmd(channels[(k + 1) \div 2], (k + 1) % 2, 0)
            /\ (pc = "done" /\ caught = "none") => Len(c) = 2 * n

C6_Witness ==
    /\ op = "exit"
    /\ pc = "done"
    /\ caught = "none"
    /\ Len(channels) = 2
    /\ Len(Cmds(wire)) = 4

\* C7: a set_voltages or set_voltages_safe call that ends before all of its
\* commands are on the wire ends by raising the transport error; whenever
\* such a call has ended the connection is not open, and after the failure
\* the call put nothing on the wire but the closing of the connection.
C7_FailurePropagates ==
    (SetOp /\ pc = "done" /\ Len(channels) = Len(voltages)) =>
        /\ serial_conn # "open"
        /\ Len(Cmds(wire)) < ExpectedCmds => result = "SerialException"
        /\ result = "SerialException" =>
              \/ wire = <<>>
              \/ wire[Len(wire)].kind = "close"

C7_Witness ==
    /\ op = "set_voltages_safe"
    /\ pc = "done"
    /\ result = "SerialException"
    /\ Len(channels) = 2
    /\ Len(Cmds(wire)) = 3
    /\ serial_conn = "closed"

\* C8: __exit__ always returns False, also when the zeroing raised, and
\* leaves the connection not open and the context inactive.
C8_ExitClosesAndReturnsFalse ==
    (op = "exit" /\ pc = "done") =>
        /\ result = "False"
        /\ serial_conn # "open"
        /\ ~context_active

C8_Witness ==
    /\ op = "exit"
    /\ pc = "done"
    /\ caught = "SerialException"
    /\ Len(Cmds(wire)) = 1
    /\ serial_conn = "closed"

\* C9: no step removes a channel from the active list, the list never holds a
\* channel twice, every channel of a call that passed the length validation
\* is in the list from then on, and an __exit__ with zero_on_exit whose
\* zeroing did not fail has sent voltage 0 and current limit 0 to every
\* active channel and closed the connection.
C9_Step ==
    /\ Range(active_channels) \subseteq Range(active_channels')
    /\ NoDuplicates(active_channels')
    /\ (pc = "idle" /\ op' \in {"set_voltages", "set_voltages_safe"}
                    /\ Len(channels') = Len(voltages'))
          => Range(channels') \subseteq Range(active_channels')
    /\ (op' = "exit" /\ pc' = "done" /\ zero_on_exit /\ caught' = "none")
          => /\ \A ch \in Range(active_channels') :
                   /\ Cmd(ch, 0, 0) \in Range(wire')
                   /\ Cmd(ch, 1, 0) \in Range(wire')
             /\ serial_conn' # "open"
             /\ active_channels' # <<>> => wire'[Len(wire')].kind = "close"

C9_ActiveGrows == [][C9_Step]_vars

C9_Witness ==
    /\ op = "exit"
    /\ pc = "done"
    /\ zero_on_exit
    /\ caught = "none"
    /\ active_channels = <<9, 8>>
    /\ Len(Cmds(wire)) = 4

\* C10: in set_voltages_safe the final current-limit code of a channel is the
\* code for min(voltage, v_max), is at most the initial code of that channel,
\* and equals it when voltage >= v_max.
C10_FinalLimitTightened ==
    (op = "set_voltages_safe" /\ resistance > 0) =>
        LET c == Cmds(wire)
            n == Len(channels)
        IN  \A j \in 1..n :
               Len(c) >= 2 * n + j =>
                  /\ c[2 * n + j].value =
                        _current_limit_to_dac(
                            CurrentLimitMa(Min(voltages[j], v_max), resistance))
                  /\ c[2 * n + j].value <= c[j].value
                  /\ voltages[j] >= v_max => c[2 * n + j].value = c[j].value

C10_Witness ==
    /\ op = "set_voltages_safe"
    /\ pc = "done"
    /\ result = "None"
    /\ Len(channels) = 2
    /\ voltages[1] > v_max
    /\ voltages[2] < v_max
    /\ Cmds(wire)[6].value < Cmds(wire)[2].value

====
